---- MODULE Spec2Model ----
(***************************************************************************)
(* Weighted NDCG of a flat list of scored instances (src/src/main.rs).     *)
(*                                                                         *)
(* The program computes in f32.  An f32 value is modelled by a record      *)
(* [m, e] standing for m * 2^e, with m = 0 (zero) or 2^23 <= m < 2^24      *)
(* (a normal number), so two values are equal exactly when the records     *)
(* are.  Addition, subtraction, multiplication and division round to       *)
(* nearest, ties to even, as the hardware does.  Only non-negative values  *)
(* occur in the arithmetic of the program (weights are positive,           *)
(* relevancies non-negative); scores are only ever compared and are        *)
(* modelled by integers.                                                   *)
(***************************************************************************)
EXTENDS Integers, Sequences, FiniteSets, TLC

(***************************************************************************)
(* f32 arithmetic                                                          *)
(***************************************************************************)
MantBits == 24

Zero == [m |-> 0, e |-> 0]

One == [m |-> 8388608, e |-> -23]

\* the result of 0.0 / 0.0 and of x / 0.0 (never produced by valid input)
NaN == [m |-> -1, e |-> 0]

RECURSIVE BitLen(_)
BitLen(M) ==
  IF M = 0 THEN 0
  ELSE IF M >= 16777216 THEN 24 + BitLen(M \div 16777216)
  ELSE IF M >= 4096 THEN 12 + BitLen(M \div 4096)
  ELSE IF M >= 64 THEN 6 + BitLen(M \div 64)
  ELSE IF M >= 8 THEN 3 + BitLen(M \div 8)
  ELSE 1 + BitLen(M \div 2)

\* M * 2^e, plus (when sticky) a non-zero amount below the last bit of M,
\* rounded to 24 significant bits, nearest-even.  When sticky is set M has
\* at least 26 bits.
RoundF32(M, e, sticky) ==
  IF M = 0 THEN Zero
  ELSE LET n == BitLen(M) IN
       IF n <= MantBits
         THEN [m |-> M * 2^(MantBits - n), e |-> e - (MantBits - n)]
         ELSE LET sh   == n - MantBits
                  q    == M \div 2^sh
                  r    == M % 2^sh
                  half == 2^(sh - 1)
                  up   == \/ r > half
                          \/ r = half /\ (sticky \/ q % 2 = 1)
                  q2   == IF up THEN q + 1 ELSE q
              IN IF q2 = 2^MantBits
                   THEN [m |-> 2^(MantBits - 1), e |-> e + sh + 1]
                   ELSE [m |-> q2, e |-> e + sh]

FromInt(k) == RoundF32(k, 0, FALSE)

\* a < b for non-negative values
FLess(a, b) ==
  IF b.m = 0 THEN FALSE
  ELSE IF a.m = 0 THEN TRUE
  ELSE a.e < b.e \/ (a.e = b.e /\ a.m < b.m)

FAdd(a, b) ==
  IF a.m < 0 \/ b.m < 0 THEN NaN
  ELSE IF a.m = 0 THEN b
  ELSE IF b.m = 0 THEN a
  ELSE LET hi == IF a.e >= b.e THEN a ELSE b
           lo == IF a.e >= b.e THEN b ELSE a
           d  == hi.e - lo.e
       IN IF d > MantBits + 2
            THEN hi
            ELSE LET L == lo.m * 8
                 IN RoundF32(hi.m * 8 + (L \div 2^d), hi.e - 3, L % 2^d # 0)

\* a - b for a >= b >= 0
FSub(a, b) ==
  IF b.m = 0 THEN a
  ELSE LET d == a.e - b.e
       IN IF d > MantBits + 2
            THEN a
            ELSE LET L      == b.m * 8
                     sticky == L % 2^d # 0
                     Ls     == (L \div 2^d) + (IF sticky THEN 1 ELSE 0)
                 IN RoundF32(a.m * 8 - Ls, a.e - 3, sticky)

FMul(a, b) ==
  IF a.m < 0 \/ b.m < 0 THEN NaN
  ELSE IF a.m = 0 \/ b.m = 0 THEN Zero
  ELSE LET h   == 4096
           a1  == a.m \div h
           a0  == a.m % h
           b1  == b.m \div h
           b0  == b.m % h
           mid == a1 * b0 + a0 * b1
           low == (mid % h) * h + a0 * b0
           hi  == a1 * b1 + (mid \div h) + (low \div (h * h))
           lo  == low % (h * h)
           qtr == 4194304
       IN RoundF32(hi * 4 + (lo \div qtr), a.e + b.e + 22, lo % qtr # 0)

\* quotient and remainder of r * 2^(7 * k) by d, 7 bits at a time
RECURSIVE LongDiv(_, _, _, _)
LongDiv(q, r, d, k) ==
  IF k = 0 THEN <<q, r>>
  ELSE LongDiv(q * 128 + ((r * 128) \div d), (r * 128) % d, d, k - 1)

FDiv(a, b) ==
  IF b.m <= 0 \/ a.m < 0 THEN NaN
  ELSE IF a.m = 0 THEN Zero
  ELSE LET qr == LongDiv(a.m \div b.m, a.m % b.m, b.m, 4)
       IN RoundF32(qr[1], a.e - b.e - 28, qr[2] # 0)

(***************************************************************************)
(* libm functions on the arguments the program passes them                 *)
(***************************************************************************)
\* i.log2() for the f32 counter i = 2.0, 3.0, ... of calculate_dcg
Log2F32(k) ==
  CASE k = 2  -> [m |-> 8388608,  e |-> -23]
    [] k = 3  -> [m |-> 13295629, e |-> -23]
    [] k = 4  -> [m |-> 8388608,  e |-> -22]
    [] k = 5  -> [m |-> 9738872,  e |-> -22]
    [] k = 6  -> [m |-> 10842119, e |-> -22]
    [] k = 7  -> [m |-> 11774900, e |-> -22]
    [] k = 8  -> [m |-> 12582912, e |-> -22]
    [] k = 9  -> [m |-> 13295629, e |-> -22]
    [] k = 10 -> [m |-> 13933176, e |-> -22]

\* 2_f32.powf(r) for r = 0, for 0 < r < 2^-25 (2^r is then nearer to 1.0
\* than to the next f32) and for integer-valued r
Powf2(r) ==
  IF r.m = 0 THEN One
  ELSE IF r.e + MantBits <= -25 THEN One
  ELSE FromInt(2^(r.m \div 2^(0 - r.e)))

(***************************************************************************)
(* Inputs                                                                  *)
(***************************************************************************)
MaxLen == 3

\* the f32 nearest to 0.82 and to 2.46, weights of the repository's tests
W082 == [m |-> 13757317, e |-> -24]

W246 == [m |-> 10317988, e |-> -22]

\* 2^-40, a positive relevancy the parser accepts
Tiny == [m |-> 8388608, e |-> -63]

Weights == {W082, W246}

Relevancies == {Zero, Tiny, FromInt(3)}

QueryIds == {0, 1}

Scores == {1, 2}

Instance ==
  [query_id : QueryIds, weight : Weights, relevancy : Relevancies,
   score : Scores]

Inputs == UNION {[1..n -> Instance] : n \in 0..MaxLen}

(***************************************************************************)
(* calculate_dcg, calculate_query_ndcg                                     *)
(***************************************************************************)
\* |a, b| b.relevancy.total_cmp(&a.relevancy) == Less
ByRelevancyDesc(a, b) == FLess(b.relevancy, a.relevancy)

\* |a, b| b.score.total_cmp(&a.score) == Less
ByScoreDesc(a, b) == b.score < a.score

ComparesLess(key, a, b) ==
  IF key = "relevancy" THEN ByRelevancyDesc(a, b) ELSE ByScoreDesc(a, b)

\* insertion of x, which followed the elements of the sorted t in the input:
\* x goes before the elements it compares Less than and behind the others
RECURSIVE InsertStable(_, _, _)
InsertStable(t, x, key) ==
  IF t = <<>> THEN <<x>>
  ELSE IF ComparesLess(key, x, t[Len(t)])
         THEN Append(InsertStable(SubSeq(t, 1, Len(t) - 1), x, key), t[Len(t)])
         ELSE Append(t, x)

\* insertion that puts x before the elements it compares Equal to
RECURSIVE InsertBeforeEqual(_, _, _)
InsertBeforeEqual(t, x, key) ==
  IF t = <<>> THEN <<x>>
  ELSE IF ~ComparesLess(key, t[Len(t)], x)
         THEN Append(InsertBeforeEqual(SubSeq(t, 1, Len(t) - 1), x, key),
                     t[Len(t)])
         ELSE Append(t, x)

\* fault: sort_unstable_by, which may leave equal elements in reverse order
RECURSIVE TiesReversedSortBy(_, _)
TiesReversedSortBy(s, key) ==
  IF s = <<>> THEN <<>>
  ELSE InsertBeforeEqual(TiesReversedSortBy(SubSeq(s, 1, Len(s) - 1), key),
                         s[Len(s)], key)

\* slice::sort_by is stable, which fixes its result: the elements in the
\* order of the comparator, equal ones in their order in the input
RECURSIVE StableSortBy(_, _)
StableSortBy(s, key) ==
  IF s = <<>> THEN <<>>
  ELSE InsertStable(StableSortBy(SubSeq(s, 1, Len(s) - 1), key),
                    s[Len(s)], key)

Gain(relevancy) == FSub(Powf2(relevancy), One)

\* dcg_acc and weight_acc after the first n instances of the slice
RECURSIVE dcg_acc(_, _)
dcg_acc(s, n) ==
  IF n = 0 THEN Zero
  ELSE FAdd(dcg_acc(s, n - 1), FDiv(Gain(s[n].relevancy), Log2F32(n + 1)))

RECURSIVE dcg_weight_acc(_, _)
dcg_weight_acc(s, n) ==
  IF n = 0 THEN Zero
  ELSE FAdd(dcg_weight_acc(s, n - 1), s[n].weight)

calculate_dcg(s) ==
  [value |-> dcg_acc(s, Len(s)), weight |-> dcg_weight_acc(s, Len(s))]

\* fault: the assertion of line 100 compiled out
IdcgAssertDropped(idcg) == TRUE

IdcgAssert(idcg) == idcg.value # Zero

WeightedNdcg(dcg, idcg) == FDiv(FMul(dcg.weight, dcg.value), idcg.value)

\* instances[start..end] with 0-based start, exclusive end
Slice(s, start, end) == SubSeq(s, start + 1, end)

Splice(s, start, end, t) ==
  [k \in 1..Len(s) |-> IF k > start /\ k <= end THEN t[k - start] ELSE s[k]]

\* the outcome of a call: which assertion failed, if any, the vector as the
\* call leaves it, the values of idcg.value and dcg.value and the
\* WeightedValue returned
calculate_query_ndcg(insts, start, end) ==
  IF start = end
    THEN [status |-> "empty_range", instances |-> insts,
          idcg |-> Zero, dcg |-> Zero, value |-> Zero, weight |-> Zero]
    ELSE LET byRel   == StableSortBy(Slice(insts, start, end), "relevancy")
             idcg    == calculate_dcg(byRel)
             byScore == StableSortBy(byRel, "score")
             dcg     == calculate_dcg(byScore)
         IN IF ~IdcgAssert(idcg)
              THEN [status |-> "idcg_zero",
                    instances |-> Splice(insts, start, end, byRel),
                    idcg |-> idcg.value, dcg |-> Zero,
                    value |-> Zero, weight |-> Zero]
              ELSE [status |-> "ok",
                    instances |-> Splice(insts, start, end, byScore),
                    idcg |-> idcg.value, dcg |-> dcg.value,
                    value |-> WeightedNdcg(dcg, idcg),
                    weight |-> dcg.weight]

(***************************************************************************)
(* calculate_ndcg                                                          *)
(***************************************************************************)
VARIABLES
  instances,   \* the vector, sorted in place group by group
  i, curr_qid, size, ndcg_acc, weight_acc,   \* the locals of calculate_ndcg
  pc,          \* "start", "loop", "done" (returned) or "panicked"
  result,      \* the value returned
  panic,       \* the assertion that failed
  input,       \* the vector as passed in
  calls        \* the calls of calculate_query_ndcg made so far

vars ==
  <<instances, i, curr_qid, size, ndcg_acc, weight_acc, pc, result, panic,
    input, calls>>

num_instances == Len(instances)

Init ==
  /\ instances \in Inputs
  /\ input = instances
  /\ i = 0
  /\ curr_qid = 0
  /\ size = 0
  /\ ndcg_acc = Zero
  /\ weight_acc = Zero
  /\ pc = "start"
  /\ result = Zero
  /\ panic = "none"
  /\ calls = <<>>

\* fault: no early return, the final division runs on 0.0 / 0.0
EmptyResultDivided == NaN

EmptyResult == Zero

\* lines 49-54, empty vector
ReturnEmpty ==
  /\ pc = "start"
  /\ instances = <<>>
  /\ result' = EmptyResult
  /\ pc' = "done"
  /\ UNCHANGED <<instances, i, curr_qid, size, ndcg_acc, weight_acc, panic,
                 input, calls>>

\* lines 49-54, non-empty vector
Initialize ==
  /\ pc = "start"
  /\ instances # <<>>
  /\ curr_qid' = instances[i + 1].query_id
  /\ size' = 1
  /\ pc' = "loop"
  /\ UNCHANGED <<instances, i, ndcg_acc, weight_acc, result, panic, input,
                 calls>>

\* fault: the run start off by one
RunStartOffByOne(next_i, sz) == next_i - sz + 1

RunStart(next_i, sz) == next_i - sz

\* fault: the assertion of line 69 compiled out
QidAssertDropped(next_qid, qid) == TRUE

QidAssert(next_qid, qid) == next_qid >= qid

\* fault: the run length is not incremented
GrowRunStuck(sz) == sz

GrowRun(sz) == sz + 1

\* lines 64-66 and 73-75: the call and the two accumulations
EvaluateRun(start, end) ==
  \E ndcg \in {calculate_query_ndcg(instances, start, end)} :
     /\ instances' = ndcg.instances
     /\ calls' = Append(calls, [start |-> start, end |-> end,
                                status |-> ndcg.status,
                                idcg |-> ndcg.idcg, dcg |-> ndcg.dcg,
                                value |-> ndcg.value, weight |-> ndcg.weight])
     /\ IF ndcg.status = "ok"
          THEN /\ ndcg_acc' = FAdd(ndcg_acc, ndcg.value)
               /\ weight_acc' = FAdd(weight_acc, ndcg.weight)
               /\ i' = i + 1
               /\ UNCHANGED <<pc, panic>>
          ELSE /\ pc' = "panicked"
               /\ panic' = ndcg.status
               /\ UNCHANGED <<ndcg_acc, weight_acc, i>>

\* one iteration, next_i == num_instances
ScanLast ==
  /\ pc = "loop"
  /\ i < num_instances
  /\ i + 1 = num_instances
  /\ EvaluateRun(RunStart(i + 1, size), i + 1)
  /\ UNCHANGED <<curr_qid, size, result, input>>

\* one iteration, the assertion of line 69 fails
ScanOutOfOrder ==
  /\ pc = "loop"
  /\ i < num_instances
  /\ i + 1 # num_instances
  /\ ~QidAssert(instances[i + 2].query_id, curr_qid)
  /\ pc' = "panicked"
  /\ panic' = "qid_order"
  /\ UNCHANGED <<instances, i, curr_qid, size, ndcg_acc, weight_acc, result,
                 input, calls>>

\* one iteration, the next element is from a different query
ScanBoundary ==
  /\ pc = "loop"
  /\ i < num_instances
  /\ i + 1 # num_instances
  /\ LET next_qid == instances[i + 2].query_id
     IN /\ QidAssert(next_qid, curr_qid)
        /\ next_qid # curr_qid
        /\ EvaluateRun(RunStart(i + 1, size), i + 1)
        /\ IF pc' = "loop"
             THEN curr_qid' = next_qid /\ size' = 1
             ELSE UNCHANGED <<curr_qid, size>>
  /\ UNCHANGED <<result, input>>

\* one iteration, the next element is from the same query
ScanSame ==
  /\ pc = "loop"
  /\ i < num_instances
  /\ i + 1 # num_instances
  /\ LET next_qid == instances[i + 2].query_id
     IN /\ QidAssert(next_qid, curr_qid)
        /\ next_qid = curr_qid
  /\ size' = GrowRun(size)
  /\ i' = i + 1
  /\ UNCHANGED <<instances, curr_qid, ndcg_acc, weight_acc, pc, result, panic,
                 input, calls>>

\* line 87
Return ==
  /\ pc = "loop"
  /\ ~(i < num_instances)
  /\ result' = FDiv(ndcg_acc, weight_acc)
  /\ pc' = "done"
  /\ UNCHANGED <<instances, i, curr_qid, size, ndcg_acc, weight_acc, panic,
                 input, calls>>

Next ==
  \/ ReturnEmpty
  \/ Initialize
  \/ ScanLast
  \/ ScanOutOfOrder
  \/ ScanBoundary
  \/ ScanSame
  \/ Return

Spec == Init /\ [][Next]_vars

(***************************************************************************)
(* Vocabulary of the properties                                            *)
(***************************************************************************)
QidSeq(s) == [k \in 1..Len(s) |-> s[k].query_id]

Decreasing(s) == {k \in 1..(Len(s) - 1) : s[k + 1].query_id < s[k].query_id}

NonDecreasing(s) == Decreasing(s) = {}

\* the 1-based position of the first element followed by a smaller query id
FirstDecreasing(s) ==
  CHOOSE k \in Decreasing(s) : \A j \in Decreasing(s) : k <= j

\* [a, b), 0-based, is a maximal contiguous run of equal query ids of s
IsMaximalRun(s, a, b) ==
  /\ 0 <= a /\ a < b /\ b <= Len(s)
  /\ \A k \in (a + 1)..b : s[k].query_id = s[a + 1].query_id
  /\ a = 0 \/ s[a].query_id # s[a + 1].query_id
  /\ b = Len(s) \/ s[b + 1].query_id # s[b].query_id

MaximalRuns(s) ==
  {r \in (0..Len(s)) \X (0..Len(s)) : IsMaximalRun(s, r[1], r[2])}

\* the instances call k was made on, in input order
Group(k) == Slice(input, calls[k].start, calls[k].end)

IdealOrder(g) == StableSortBy(g, "relevancy")

PredictedOrder(g) == StableSortBy(IdealOrder(g), "score")

RelevancySeq(g) == [k \in 1..Len(g) |-> g[k].relevancy]

\* 2^-25: below it 2_f32.powf(r) is 1.0
TwoToMinus25 == [m |-> 8388608, e |-> -48]

Negligible(r) == FLess(r, TwoToMinus25)

AllNegligible(g) == \A k \in 1..Len(g) : Negligible(g[k].relevancy)

Reorderings(n) ==
  {p \in [1..n -> 1..n] : \A a, b \in 1..n : p[a] = p[b] => a = b}

OkCalls == {k \in 1..Len(calls) : calls[k].status = "ok"}

(***************************************************************************)
(* The value the aggregate formula gives: (sum of W_q * ndcg_q) / (sum of  *)
(* W_q) over the maximal runs, left to right, with                         *)
(* ndcg_q = DCG(predicted order) / DCG(ideal order) and W_q the weight of  *)
(* all instances of the run, every operation in f32                        *)
(***************************************************************************)
RunNdcg(g) ==
  FDiv(calculate_dcg(PredictedOrder(g)).value,
       calculate_dcg(IdealOrder(g)).value)

RunWeight(g) == calculate_dcg(PredictedOrder(g)).weight

\* the run of s that starts at a (0-based)
RunFrom(s, a) == CHOOSE r \in MaximalRuns(s) : r[1] = a

RECURSIVE SumNdcgFrom(_, _)
SumNdcgFrom(s, b) ==
  IF b = 0 THEN Zero
  ELSE LET r == CHOOSE x \in MaximalRuns(s) : x[2] = b
           g == Slice(s, r[1], r[2])
       IN FAdd(SumNdcgFrom(s, r[1]), FMul(RunWeight(g), RunNdcg(g)))

RECURSIVE SumWeightFrom(_, _)
SumWeightFrom(s, b) ==
  IF b = 0 THEN Zero
  ELSE LET r == CHOOSE x \in MaximalRuns(s) : x[2] = b
       IN FAdd(SumWeightFrom(s, r[1]), RunWeight(Slice(s, r[1], r[2])))

WeightedAverage(s) ==
  FDiv(SumNdcgFrom(s, Len(s)), SumWeightFrom(s, Len(s)))

(***************************************************************************)
(* Properties                                                              *)
(***************************************************************************)

\* C1: when calculate_ndcg returns on a non-empty input, the value is
\* (sum of W_q * ndcg_q) / (sum of W_q) over the maximal runs of equal
\* query id, W_q the weight of all instances of the run and
\* ndcg_q = DCG(score order) / DCG(relevancy order).
C1_WeightedAggregate ==
  (pc = "done" /\ input # <<>>) => result = WeightedAverage(input)

\* C2: an input with a strictly decreasing adjacent pair of query ids never
\* makes calculate_ndcg return: the scan does not get past the first such
\* pair, the assertion of line 69 fails there, and the query ids of the
\* vector are never re-ordered.
C2_OutOfOrderFails ==
  ~NonDecreasing(input) =>
     /\ pc # "done"
     /\ QidSeq(instances) = QidSeq(input)
     /\ pc = "loop" =>
          /\ i <= FirstDecreasing(input) - 1
          /\ i = FirstDecreasing(input) - 1 =>
               ~(instances[i + 2].query_id >= curr_qid)

C2_Witness ==
  /\ pc = "panicked"
  /\ panic = "qid_order"
  /\ Len(calls) = 1

\* C3 as stated: a call of calculate_query_ndcg fails on the zero-IDCG
\* assertion if and only if every instance of its group has relevancy 0, and
\* calculate_ndcg on a non-decreasing input fails exactly when some group
\* has all-zero relevancy.
C3_FailsIffAllZero ==
  /\ \A k \in 1..Len(calls) :
       calls[k].status = "idcg_zero" <=>
         \A j \in 1..Len(Group(k)) : Group(k)[j].relevancy = Zero
  /\ pc = "done" =>
       \A r \in MaximalRuns(input) :
         \E j \in (r[1] + 1)..r[2] : input[j].relevancy # Zero

\* C3 amended: a call of calculate_query_ndcg fails on the zero-IDCG
\* assertion if and only if every instance of its group has a relevancy
\* whose gain 2^relevancy - 1 is 0.0 in f32 (relevancy 0, or positive and
\* below 2^-25); calculate_ndcg on a non-decreasing input fails exactly
\* when some group is of that kind and returns otherwise.
C3_FailsIffAllNegligible ==
  /\ \A k \in 1..Len(calls) :
       calls[k].status = "idcg_zero" <=> AllNegligible(Group(k))
  /\ pc = "done" =>
       \A r \in MaximalRuns(input) : ~AllNegligible(Slice(input, r[1], r[2]))
  /\ (pc = "panicked" /\ NonDecreasing(input)) =>
       /\ panic = "idcg_zero"
       /\ \E r \in MaximalRuns(input) : AllNegligible(Slice(input, r[1], r[2]))
  /\ (pc = "loop" /\ NonDecreasing(input) /\ i = num_instances) =>
       \A r \in MaximalRuns(input) : ~AllNegligible(Slice(input, r[1], r[2]))

C3_Witness ==
  /\ pc = "panicked"
  /\ panic = "idcg_zero"
  /\ \E j \in 1..Len(Group(Len(calls))) :
       Group(Len(calls))[j].relevancy = Tiny

\* C4: on an empty vector calculate_ndcg returns 0.0 and does not fail: the
\* loop is never entered, so no assertion is evaluated, calculate_query_ndcg
\* is not called and the division of line 87 is not performed.
C4_EmptyReturnsZero ==
  input = <<>> =>
     /\ pc \in {"start", "done"}
     /\ panic = "none"
     /\ calls = <<>>
     /\ pc = "done" => result = Zero

C4_Witness == input = <<>> /\ pc = "done"

\* C5: a call of calculate_query_ndcg on a group of exactly one instance
\* returns value == weight == the weight of that instance.
C5_SingleInstanceExact ==
  \A k \in OkCalls :
    calls[k].end - calls[k].start = 1 =>
       /\ calls[k].weight = Group(k)[1].weight
       /\ calls[k].value = calls[k].weight

\* C6: for every group with non-zero IDCG the DCG of the predicted order
\* does not exceed the DCG of the ideal order, the per-query NDCG is at
\* most 1 and the value returned by calculate_query_ndcg is at most the
\* weight returned.
C6_BoundedByIdeal ==
  \A k \in OkCalls :
    /\ ~FLess(calls[k].idcg, calls[k].dcg)
    /\ ~FLess(One, FDiv(calls[k].dcg, calls[k].idcg))
    /\ ~FLess(calls[k].weight, calls[k].value)

\* C7: for every group whose relevancies are all > 0 and whose predicted
\* order carries the same sequence of relevancy values as its ideal order,
\* calculate_query_ndcg returns a value equal to the total weight.
C7_PerfectOrderExact ==
  \A k \in OkCalls :
    (/\ \A j \in 1..Len(Group(k)) : Group(k)[j].relevancy # Zero
     /\ RelevancySeq(PredictedOrder(Group(k)))
          = RelevancySeq(IdealOrder(Group(k))))
    => calls[k].value = calls[k].weight

\* C8: the calls of calculate_query_ndcg are made on maximal runs of equal
\* query id, left to right, the first starting at 0 and each starting where
\* the previous one ended; when calculate_ndcg returns, every maximal run
\* has been evaluated exactly once and the last call ends at the end of the
\* vector.
C8_OneCallPerRun ==
  /\ \A k \in 1..Len(calls) :
       IsMaximalRun(input, calls[k].start, calls[k].end)
  /\ calls # <<>> => calls[1].start = 0
  /\ \A k \in 1..(Len(calls) - 1) : calls[k].end = calls[k + 1].start
  /\ (pc = "done" /\ input # <<>>) =>
       /\ calls # <<>>
       /\ calls[Len(calls)].end = Len(input)
       /\ Len(calls) = Cardinality(MaximalRuns(input))
       /\ \A k \in 1..Len(calls) : calls[k].status = "ok"

C8_Witness ==
  /\ pc = "done"
  /\ Len(calls) = 2
  /\ calls[1].end - calls[1].start = 2

C10_RunWindow ==
  /\ (pc = "loop" /\ i < num_instances) =>
       /\ 1 <= size /\ size <= i + 1
       /\ \A k \in (i + 1 - size)..i : instances[k + 1].query_id = curr_qid
       /\ RunStart(i + 1, size) >= 0
       /\ RunStart(i + 1, size) < i + 1
       /\ i + 1 <= num_instances
  /\ panic # "empty_range"
  /\ \A k \in 1..Len(calls) :
       /\ calls[k].status # "empty_range"
       /\ calls[k].start < calls[k].end
       /\ calls[k].end <= num_instances

C10_Witness ==
  /\ pc = "loop"
  /\ i < num_instances
  /\ size = 2
  /\ Len(calls) = 1

====
